---------------------------- MODULE Spec2Model ----------------------------
(***************************************************************************)
(* A model of the Common Crawl collector (src/collector.py).               *)
(*                                                                         *)
(* Strings are sequences of code points, so that Python's string order     *)
(* and str.startswith are computed rather than assumed.  Python lists are  *)
(* sequences; list positions keep Python's 0-based numbering and are       *)
(* read through PyAt, which also implements negative subscripts.           *)
(*                                                                         *)
(* Calls to the logger and to the Prometheus monitor change no program     *)
(* state and are not modelled, with one exception: a subscript or a        *)
(* division evaluated while building the arguments of such a call          *)
(* (collector.py:559, :592, :616, :733) raises like any other and is       *)
(* modelled.  The debug message of RemoteFile.get (:408) is left out with  *)
(* the logging: its format string has three conversions and two values,    *)
(* so with it every request ends in TypeError and the process ends at its  *)
(* first request.  The model is the program without that line.             *)
(*                                                                         *)
(* The process is modelled in steps: loading the retry queue, the top of   *)
(* main's loop, the retry of one queued file, and one Search.process().    *)
(* Each step threads a record of the process state through the methods it  *)
(* calls, keeps the state of the local files after each write (a kill can  *)
(* leave any of them behind) and carries the exception that ends it.       *)
(*                                                                         *)
(* The clock of RemoteFile.get (the request limiter and the backoff        *)
(* sleep) has a specification of its own, SpecLimiter, in which get() is   *)
(* called with the time since the last call, the time the request takes    *)
(* and the answer it gets; main's steps see a request and its answer only. *)
(*                                                                         *)
(* The methods of RetryQueue are also called on their own, in SpecLedger,  *)
(* on queues of several entries and with entries of a domain that has left *)
(* the list; the retryqueue file is kept as the lines save() writes, each  *)
(* number as its decimal digits.  RemoteFile.read has SpecCache: one       *)
(* RemoteFile, the size of its cache file and of the remote file, and the  *)
(* requests a read() sends.                                                *)
(***************************************************************************)
EXTENDS Integers, Sequences, FiniteSets, TLC

VARIABLES
    \* ---- search harness: the pure search functions applied to inputs ----
    corpus,     \* the remote index of one archive: [index, blocks]
    qDomain,    \* the domain name searched for (a sequence of labels)
    sPc,        \* "start" | "clusters" | "records" | "matched"
    sClusters,  \* the outcome of findClusters
    sRecords,   \* the outcome of findArchives
    mEntry,     \* is_match input: an index entry's searchable string
    mOut        \* is_match output

VARIABLES
    \* ---- the collector process (main) ----
    pc,          \* "boot" | "loop" | "retry" | "search" | "dead"
    domains,     \* Domain.domains / main's domains: the listed domain names, in order
    hist,        \* Domain.history of each listed Domain object
    queue,       \* RetryQueue.queue
    current_search, \* main's current_search (a Search object, or none)
    sel,         \* the (domain, archive) pair main selected in this cycle
    disk,        \* local files: history documents, the retryqueue file, downloads
    domainsFile, \* the content of domains.conf
    fileChanged, \* domains.conf is newer than domains_last_modified
    lastGets,    \* the requests the last step sent
    lastAnswers, \* what the requests of the last step were answered with
    cause,       \* why the process last ended ("none" while it has not)
    \* ---- what the run did, recorded for the properties ----
    lastLocated, \* the findArchives call the last step completed, and its count
    lastFetch,   \* the record getFile selected in the last step
    resume,      \* the record whose download was complete when the process was killed
    clean        \* no request has failed and the process has not ended so far

VARIABLES
    \* ---- the request limiter of RemoteFile (class attribute requests) ----
    interval,    \* config.min_request_interval, in seconds
    requests,    \* RemoteFile.requests: time since 'last' and 'failed'
    call         \* the last get() call: what it waited, sent and raised

VARIABLES
    \* ---- the retry queue's methods called on their own ----
    op,          \* the last call: its name, its argument, what it raised
    rfile        \* a RemoteFile with its cache file, and its last read()

searchVars == <<corpus, qDomain, sPc, sClusters, sRecords, mEntry, mOut>>
mainVars == <<pc, domains, hist, queue, current_search, sel, disk, domainsFile, fileChanged,
              lastGets, lastAnswers, cause, lastLocated, lastFetch, resume, clean>>
limiterVars == <<interval, requests, call>>
ledgerVars == <<op, rfile>>
vars == <<searchVars, mainVars, limiterVars, ledgerVars>>

-----------------------------------------------------------------------------
(* Characters and strings *)

RParen == 41
Comma == 44

Min(a, b) == IF a < b THEN a ELSE b

\* Python's < on str: lexicographic by code point, a proper prefix is smaller.
StrLess(a, b) ==
    \E k \in 1..(Min(Len(a), Len(b)) + 1) :
        /\ \A j \in 1..(k - 1) : a[j] = b[j]
        /\ \/ k > Len(a) /\ k <= Len(b)
           \/ k <= Len(a) /\ k <= Len(b) /\ a[k] < b[k]

\* str.startswith
startswith(s, prefix) ==
    /\ Len(prefix) <= Len(s)
    /\ SubSeq(s, 1, Len(prefix)) = prefix

\* Python's list subscript, 0-based, negative subscripts count from the end.
\* The caller guards the range: -Len(s) <= i < Len(s).
PyAt(s, i) == IF i >= 0 THEN s[i + 1] ELSE s[Len(s) + i + 1]
PyInRange(s, i) == -Len(s) <= i /\ i < Len(s)

-----------------------------------------------------------------------------
(* collector.py:151 *)

is_match_no_comma(entry, search) == startswith(entry, search \o <<RParen>>)

is_match(entry, search) ==
    \/ startswith(entry, search \o <<RParen>>)
    \/ startswith(entry, search \o <<Comma>>)

-----------------------------------------------------------------------------
(* Domain.__init__: the search string is the labels reversed, comma-joined *)

RECURSIVE JoinReversed(_, _)
JoinReversed(labels, i) ==
    IF i = 0 THEN <<>>
    ELSE labels[i] \o (IF i > 1 THEN <<Comma>> ELSE <<>>) \o JoinReversed(labels, i - 1)

searchString(domain) == JoinReversed(domain, Len(domain))

-----------------------------------------------------------------------------
(* Tuple order.  A cluster index entry is a 6-tuple                        *)
(* <<searchable_string, timestamp, filename, offset, length, cluster>>, a  *)
(* shard index entry a 3-tuple <<searchable_string, timestamp, json>>.     *)
(* Python compares tuples field by field; fields 1 and 3 are strings.      *)

FieldLess(i, x, y) == IF i \in {1, 3} THEN StrLess(x, y) ELSE x < y

TupleLess(x, y) ==
    \E k \in 1..Len(x) :
        /\ \A j \in 1..(k - 1) : x[j] = y[j]
        /\ FieldLess(k, x[k], y[k])

\* bisect.bisect_left(a, x): the loop of the standard library.
RECURSIVE BisectLoop(_, _, _, _)
BisectLoop(a, x, lo, hi) ==
    IF lo < hi
    THEN LET mid == (lo + hi) \div 2
         IN IF TupleLess(PyAt(a, mid), x)
            THEN BisectLoop(a, x, mid + 1, hi)
            ELSE BisectLoop(a, x, lo, mid)
    ELSE lo

bisect_left(a, x) == BisectLoop(a, x, 0, Len(a))

\* The forward scan shared by findClusters and findArchives:
\*   while position < len(index): if is_match(...): append; position += 1 else break
RECURSIVE ScanMatches(_, _, _)
ScanMatches(index, position, search) ==
    IF position < Len(index) /\ is_match(PyAt(index, position)[1], search)
    THEN <<PyAt(index, position)>> \o ScanMatches(index, position + 1, search)
    ELSE <<>>


-----------------------------------------------------------------------------
(* Search.findClusters, collector.py:538-567, from the parsed index on.    *)
(* The outcome is [err, clusters]: err is "none" when the method returns   *)
(* and names the exception otherwise; clusters is self.clusters.           *)

ClusterProbe(search) == <<search \o <<RParen>>, 0, <<>>, 0, 0, 0>>

findClusters(index, search) ==
    LET position == bisect_left(index, ClusterProbe(search))
    IN  \* :559 evaluates index[position][0] for the debug line
        IF ~PyInRange(index, position)
        THEN [err |-> "IndexError", clusters |-> <<>>]
        \* :561 index[position-1]; at position 0 this is index[-1], the last entry
        ELSE [err |-> "none",
              clusters |-> <<PyAt(index, position - 1)>>
                           \o ScanMatches(index, position, search)]

-----------------------------------------------------------------------------
(* Search.findArchives, collector.py:569-604, the search part.             *)

ShardProbe(search) == <<search, 0, <<>>>>

\* The byte range [offset, offset+length) of a shard file, as the remote
\* host serves it: the block of the cluster index line with that range.
BlockOf(c, cluster) ==
    LET p == CHOOSE q \in 1..Len(c.index) :
                 /\ c.index[q][3] = cluster[3]
                 /\ c.index[q][4] = cluster[4]
                 /\ c.index[q][5] = cluster[5]
    IN  c.blocks[p]

\* One iteration of the loop over self.clusters (:588-600) on a parsed block:
\* [err, found], found being the json fields appended to self.archives.
ScanBlock(block, isFirst, search) ==
    LET position == IF isFirst THEN bisect_left(block, ShardProbe(search)) ELSE 0
    IN  \* :592 evaluates index[position][0] for the debug line
        IF ~PyInRange(block, position)
        THEN [err |-> "IndexError", found |-> <<>>]
        ELSE LET hits == ScanMatches(block, position, search)
             IN  [err |-> "none", found |-> [i \in 1..Len(hits) |-> hits[i][3]]]

\* `cluster is self.clusters[0]`: object identity.  Every line of the index
\* is parsed into a tuple of its own and the lines of an index are distinct,
\* so two elements of self.clusters are the same object iff they are equal.
\* failAt names the block whose read raises failExc (0: every read succeeds).
RECURSIVE ArchivesLoop(_, _, _, _, _, _, _)
ArchivesLoop(c, clusters, i, search, acc, failAt, failExc) ==
    IF i > Len(clusters)
    THEN [err |-> "none", archives |-> acc]
    ELSE IF i = failAt
    THEN [err |-> failExc, archives |-> acc]
    ELSE LET r == ScanBlock(BlockOf(c, clusters[i]), clusters[i] = clusters[1], search)
         IN  IF r.err # "none"
             THEN [err |-> r.err, archives |-> acc \o r.found]
             ELSE ArchivesLoop(c, clusters, i + 1, search, acc \o r.found, failAt, failExc)

findArchives(c, clusters, search) == ArchivesLoop(c, clusters, 1, search, <<>>, 0, "none")

-----------------------------------------------------------------------------
(* Inputs of the search harness.                                           *)
(*                                                                         *)
(* A corpus is the index of one archive as the remote host publishes it:   *)
(* a sorted run of shard entries cut into consecutive blocks, and one      *)
(* cluster index line per block carrying the block's first key.            *)

MaxEntries == 4

\* "a,a)/", "a,b)/", "a,b)/x", "a,b,c)/", "a,bc)/", "a,c)/" in sort order
Universe ==
    << <<97,44,97,41,47>>, <<97,44,98,41,47>>, <<97,44,98,41,47,120>>,
       <<97,44,98,44,99,41,47>>, <<97,44,98,99,41,47>>, <<97,44,99,41,47>> >>

\* the domains a.a, b.a and c.a, as label lists
GenDomains == { << <<97>>, <<97>> >>, << <<98>>, <<97>> >>, << <<99>>, <<97>> >> }

SetToSeq(S) ==
    CHOOSE f \in [1..Cardinality(S) -> S] : \A i, j \in 1..Cardinality(S) : i < j => f[i] < f[j]

\* the json field of shard entry u: filename code, offset, length
JsonOf(u) == <<70, 100 * u, 50>>
ShardEntry(u) == <<Universe[u], u, JsonOf(u)>>

\* S: the entries present (positions of Universe); B: the positions within
\* the run at which a block starts (1 is always one).
GenCorpus(S, B) ==
    LET ids    == SetToSeq(S)
        starts == SetToSeq(B)
        n      == Len(ids)
        m      == Len(starts)
        stop(b) == IF b = m THEN n ELSE starts[b + 1] - 1
    IN  [index  |-> [b \in 1..m |->
                        <<Universe[ids[starts[b]]], ids[starts[b]], <<70>>, 10 * (b - 1), 10, b - 1>>],
         blocks |-> [b \in 1..m |->
                        [k \in 1..(stop(b) - starts[b] + 1) |-> ShardEntry(ids[starts[b] + k - 1])]]]

GenCorpora ==
    UNION { { GenCorpus(S, B \cup {1}) : B \in SUBSET (2..Cardinality(S)) } :
            S \in { T \in SUBSET (1..Len(Universe)) : Cardinality(T) \in 1..MaxEntries } }

\* The rows of the boundary example: the domain example.com.
ExampleDomain == << <<101,120,97,109,112,108,101>>, <<99,111,109>> >>
R0 == << <<99,111,109,44,101,120,97,109,112,108,101,41,47>>, 0, <<65>>, 0, 10, 0 >>
R1 == << <<99,111,109,44,101,120,97,109,112,108,101,44,98,108,111,103,41,47>>, 0, <<65>>, 10, 10, 0 >>
R2 == << <<99,111,109,44,101,120,97,109,112,108,101,105,110,99,41,47>>, 0, <<66>>, 0, 10, 1 >>
\* "com,example)/x", "com,example,www)/x", "com,exampleinc)/x"
ExKeyExact == <<99,111,109,44,101,120,97,109,112,108,101,41,47,120>>
ExKeySub   == <<99,111,109,44,101,120,97,109,112,108,101,44,119,119,119,41,47,120>>
ExKeyOther == <<99,111,109,44,101,120,97,109,112,108,101,105,110,99,41,47,120>>

ExampleCorpus3 ==
    [index  |-> <<R0, R1, R2>>,
     blocks |-> << << <<R0[1], 1, <<65, 0, 50>>>> >>,
                   << <<R1[1], 2, <<65, 50, 50>>>> >>,
                   << <<R2[1], 3, <<66, 0, 50>>>> >> >>]

\* A 1-block cluster index matching example.com and a shard block holding
\* 2 matching records and 1 non-matching record.
ExampleCorpus1 ==
    [index  |-> <<R0>>,
     blocks |-> << << <<R0[1], 1, <<65, 0, 50>>>>,
                      <<ExKeyExact, 2, <<65, 50, 50>>>>,
                      <<ExKeyOther, 3, <<66, 0, 50>>>> >> >>]

ExampleCorpora == {ExampleCorpus3, ExampleCorpus1}

\* every searchable string of a corpus, and the strings of the match examples
EntriesOf(c) ==
    {c.index[i][1] : i \in 1..Len(c.index)}
    \cup UNION {{c.blocks[b][k][1] : k \in 1..Len(c.blocks[b])} : b \in 1..Len(c.blocks)}
    \cup {ExKeyExact, ExKeySub, ExKeyOther}

-----------------------------------------------------------------------------
(* The collector process: its data.                                        *)

MaxQueue == 1

\* Config.max_file_size
max_file_size == 104857600

\* the configured domains b.a and ab.a, and the contents domains.conf takes
D1 == << <<98>>, <<97>> >>
D2 == << <<97, 98>>, <<97>> >>
DomainNames == {D1, D2}
DomainLists == { <<D2, D1>>, <<D2>> }

\* the archives of the catalog, in the order Archives.update() found them
ArchiveIDs == <<"A1", "A2">>
Archives == {ArchiveIDs[i] : i \in 1..Len(ArchiveIDs)}

\* The index of each archive.  b.a has 2 records in A1 (one in each of two
\* blocks) and 1 record in A2; ab.a has none in either.
CorpusA1 == GenCorpus({1, 2, 4, 5}, {1, 3})
CorpusA2 == GenCorpus({1, 3, 6}, {1, 3})
CorpusOf(a) == IF a = "A1" THEN CorpusA1 ELSE CorpusA2

AllRecs == {JsonOf(u) : u \in 1..Len(Universe)}

\* json.loads of a shard entry's json field
LoadsJson(j) == [filename |-> <<j[1]>>, offset |-> j[2], length |-> j[3]]

\* One archive's entry of Domain.history; `in` tells whether the key exists.
NoEntry == [in |-> FALSE, completed |-> 0, failed |-> 0, results |-> 0]
FreshEntry == [in |-> TRUE, completed |-> 0, failed |-> 0, results |-> 0]
EmptyDoc == [a \in Archives |-> NoEntry]

\* A history file: ok is FALSE while the file is opened for writing and its
\* JSON is not written yet (open('w') truncates).  A missing file loads as {}.
TornFile == [ok |-> FALSE, doc |-> EmptyDoc]
FileOf(doc) == [ok |-> TRUE, doc |-> doc]

InitDisk ==
    [hist  |-> [d \in DomainNames |-> FileOf(EmptyDoc)],
     queue |-> <<>>,
     files |-> [r \in AllRecs |-> "none"],
     idx   |-> [a \in Archives |-> FALSE]]

NoSearch ==
    [active |-> FALSE, domain |-> D1, archive |-> "A1", stale |-> FALSE,
     shist |-> EmptyDoc, clusters |-> <<>>, archives |-> <<>>]
NoSel == [some |-> FALSE, domain |-> D1, archive |-> "A1"]

NoLocated == [some |-> FALSE, domain |-> D1, archive |-> "A1", n |-> 0]
NoFetch ==
    [some |-> FALSE, domain |-> D1, archive |-> "A1", pos |-> 0, rec |-> <<>>,
     sent |-> FALSE, got |-> FALSE, raised |-> "none"]
NoResume ==
    [some |-> FALSE, domain |-> D1, archive |-> "A1", pos |-> 0, rec |-> <<>>]

\* no call of a retry queue method yet
NoOp == [name |-> "none", item |-> [rec |-> <<>>, domain |-> D1, archive |-> "A1", attempts |-> 0],
         outcome |-> "ok", exc |-> "none", n |-> 0]

\* No RemoteFile is being read.  local is the size of the cache file, -1
\* when there is none; length 0 stands for a length that is not set.
NoFile == [filename |-> FALSE, length |-> 0, local |-> 0 - 1, remote |-> 0,
           n |-> 0, reqs |-> <<>>, from |-> "none", ret |-> 0 - 1, exc |-> "none",
           sinceLast |-> 0]

\* What requests.get / requests.head can come back with.
GetOutcomes == {"ok", "net", "http", "4xx"}

-----------------------------------------------------------------------------
(* The methods.  Each takes and returns the process state as a record      *)
(*   [hist, domains, queue, search, disk, gets, trail, exc, located, fetch] *)
(* gets: the requests sent so far in this step; trail: the state of the    *)
(* local files after each write of this step, in order; exc: the exception *)
(* propagating ("none" when none is); located, fetch: what findArchives    *)
(* and getFile did in this step.                                           *)

\* A statement's result, computed once, handed to the statements after it.
Then(x, F(_)) == CHOOSE y \in {F(v) : v \in {x}} : TRUE

Persist(st, newDisk) ==
    [st EXCEPT !.disk = newDisk, !.trail = Append(@, [disk |-> newDisk, gets |-> st.gets])]

Raise(st, e) == [st EXCEPT !.exc = e]

Listed(st, d) == d \in {st.domains[i] : i \in 1..Len(st.domains)}

\* The Domain object a method works on: the one Domain.domains lists, or the
\* one current_search holds, which is another object once the list was reloaded.
ObjHist(st, who, d) ==
    IF who = "search" /\ st.search.stale THEN st.search.shist ELSE st.hist[d]

\* Domain.updateHistory, collector.py:508-518
updateHistory(st, who, d, a, key, value) ==
    Then(st, LAMBDA s :
        LET old == ObjHist(s, who, d)
            e0  == IF old[a].in THEN old[a] ELSE FreshEntry
            doc == [old EXCEPT ![a] = [e0 EXCEPT ![key] = value]]
        IN  Then(IF who = "search" /\ s.search.stale
                 THEN [s EXCEPT !.search.shist = doc]
                 ELSE [s EXCEPT !.hist[d] = doc], LAMBDA s1 :
            \* open('w') truncates the file; json.dump fills it
            Then(Persist(s1, [s1.disk EXCEPT !.hist[d] = TornFile]), LAMBDA s2 :
                 Persist(s2, [s2.disk EXCEPT !.hist[d] = FileOf(doc)]))))

\* str() of a non-negative int and int() of a decimal string, on code points
RECURSIVE str_int(_)
str_int(n) == IF n < 10 THEN <<48 + n>> ELSE Append(str_int(n \div 10), 48 + (n % 10))

RECURSIVE int_str(_)
int_str(s) ==
    IF s = <<>> THEN 0
    ELSE 10 * int_str(SubSeq(s, 1, Len(s) - 1)) + (s[Len(s)] - 48)

\* :464 one line of the retryqueue file, its seven tab-separated fields
LineOf(item) ==
    [url |-> <<item.rec[1]>>, filename |-> item.rec,
     offset |-> str_int(item.rec[2]), length |-> str_int(item.rec[3]),
     domain |-> item.domain, archiveID |-> item.archive,
     attempts |-> str_int(item.attempts)]

\* :433-434 the RemoteFile built from a line; attempts starts at 0 (:315)
ItemOfLine(line) ==
    [rec |-> <<line.url[1], int_str(line.offset), int_str(line.length)>>,
     domain |-> line.domain, archive |-> line.archiveID, attempts |-> 0]

LinesOf(q) == [i \in 1..Len(q) |-> LineOf(q[i])]

\* RetryQueue.save, collector.py:461-465
save(st) ==
    Then(st, LAMBDA s :
        Then(Persist(s, [s.disk EXCEPT !.queue = <<>>]), LAMBDA s1 :
             Persist(s1, [s1.disk EXCEPT !.queue = LinesOf(s.queue)])))

\* The exception RemoteFile.get (collector.py:384-423) ends with, by what the
\* request came back with.  A failed request leaves r unbound, and the
\* finally clause (:406) reads r.headers unless self.length is set.
GetExc(outcome, hasLength) ==
    CASE outcome = "ok"   -> "none"
      [] outcome = "net"  -> IF hasLength THEN "RequestException" ELSE "UnboundLocalError"
      [] outcome = "http" -> "BadHTTPStatus"
      [] outcome = "4xx"  -> "ParserError"

\* RemoteFile.get as main sees it: the request and what it raises.  Its clock
\* (the limiter and the backoff sleep) is RemoteFile_get's; the monitor and the
\* log messages, the debug message of :408 among them, are left out.
get(st, req, outcome, hasLength) ==
    [st EXCEPT !.gets = @ \cup {req},
               !.answers = @ \cup {[req |-> req, outcome |-> outcome]},
               !.exc = GetExc(outcome, hasLength)]

\* RemoteFile.write, collector.py:374-382
write(st, rec) ==
    Then(st, LAMBDA s :
        Then(Persist(s, [s.disk EXCEPT !.files[rec] = "partial"]), LAMBDA s1 :
             Persist(s1, [s1.disk EXCEPT !.files[rec] = "full"])))

\* add without the test for a domain that left the list: a variant on which
\* C21_DropUnlisted fails
add_unlisted_kept(st, item, no_history) ==
    Then(st, LAMBDA s :
        LET h == s.hist[item.domain][item.archive]
        IN  Then(IF no_history \/ ~Listed(s, item.domain) THEN s
                 ELSE IF ~h.in THEN Raise(s, "KeyError")
                 ELSE updateHistory(s, "listed", item.domain, item.archive,
                                    "failed", h.failed + 1), LAMBDA s1 :
                 IF s1.exc # "none" THEN s1
                 ELSE save([s1 EXCEPT !.queue = Append(@, item)])))

\* RetryQueue.add, collector.py:450-459
add(st, item, no_history) ==
    Then(st, LAMBDA s :
        IF ~no_history /\ ~Listed(s, item.domain)
        THEN s
        ELSE LET h == s.hist[item.domain][item.archive]
             IN  Then(IF no_history THEN s
                      ELSE IF ~h.in THEN Raise(s, "KeyError")
                      ELSE updateHistory(s, "listed", item.domain, item.archive,
                                         "failed", h.failed + 1), LAMBDA s1 :
                      IF s1.exc # "none" THEN s1
                      ELSE save([s1 EXCEPT !.queue = Append(@, item)])))

RecordReq(item) ==
    [what |-> "record", domain |-> item.domain, archive |-> item.archive, rec |-> item.rec]

\* download without the test for an existing local file: a variant on
\* which C9_Reselected fails
download_always(st, item, outcome) ==
    Then(st, LAMBDA s :
        Then(get(s, RecordReq(item), outcome, TRUE), LAMBDA s1 :
             IF s1.exc \in {"RequestException", "BadHTTPStatus"}
             THEN add(Raise(s1, "none"), item, FALSE)
             ELSE IF s1.exc = "none" THEN write(s1, item.rec)
             ELSE s1))

\* RemoteFile.download, collector.py:324-345, of a record (a RemoteFile with
\* a filename, an offset and a length).
download(st, item, outcome) ==
    Then(st, LAMBDA s :
        \* :329-338 the file exists and is not shorter than the record
        IF s.disk.files[item.rec] = "full"
        THEN s
        ELSE Then(get(s, RecordReq(item), outcome, TRUE), LAMBDA s1 :
                  IF s1.exc \in {"RequestException", "BadHTTPStatus"}
                  THEN add(Raise(s1, "none"), item, FALSE)
                  ELSE IF s1.exc = "none" THEN write(s1, item.rec)
                  ELSE s1))

\* process taking the entry queued last: a variant on which
\* C25_FifoOnePerCycle fails
process_queue_last(st, outcome) ==
    Then(st, LAMBDA s :
        IF s.queue = <<>> THEN s
        ELSE LET item == s.queue[Len(s.queue)]
                 d    == item.domain
                 a    == item.archive
             IN  IF ~Listed(s, d) THEN Raise(s, "RuntimeError")
                 ELSE IF ~s.hist[d][a].in THEN Raise(s, "KeyError")
                 ELSE Then(updateHistory(s, "listed", d, a, "failed",
                                         s.hist[d][a].failed - 1), LAMBDA s1 :
                      Then(download([s1 EXCEPT !.queue = SubSeq(@, 1, Len(@) - 1)], item, outcome), LAMBDA s2 :
                           IF s2.exc # "none" THEN s2 ELSE save(s2))))

\* RetryQueue.process, collector.py:439-448
process_queue(st, outcome) ==
    Then(st, LAMBDA s :
        IF s.queue = <<>> THEN s
        ELSE LET item == Head(s.queue)
                 d    == item.domain
                 a    == item.archive
             IN  IF ~Listed(s, d) THEN Raise(s, "RuntimeError")
                 ELSE IF ~s.hist[d][a].in THEN Raise(s, "KeyError")
                 ELSE Then(updateHistory(s, "listed", d, a, "failed",
                                         s.hist[d][a].failed - 1), LAMBDA s1 :
                      Then(download([s1 EXCEPT !.queue = Tail(@)], item, outcome), LAMBDA s2 :
                           IF s2.exc # "none" THEN s2 ELSE save(s2))))

\* The lines the reader of load() gets from its first read of the file: its
\* buffer takes 8192 bytes, about 31 lines; here ChunkLines lines.
ChunkLines == 2

\* RetryQueue.load, collector.py:429-437: every line of the file is added
\* in turn, which saves the file (attempts still 0), and then gets its
\* attempts.  save() rewrites the file load() is reading: the reader has
\* the first ChunkLines lines in its buffer, and past them it finds the end
\* of the rewritten, shorter file; torn tells whether the buffer ended
\* inside a line, which then fails to split into seven fields.
RECURSIVE LoadLoop(_, _, _, _)
LoadLoop(st, lines, i, torn) ==
    IF i > Len(lines) THEN st
    ELSE IF i > ChunkLines THEN (IF torn THEN Raise(st, "ValueError") ELSE st)
    ELSE Then(add(st, ItemOfLine(lines[i]), TRUE), LAMBDA s :
              LoadLoop([s EXCEPT !.queue[Len(s.queue)].attempts = int_str(lines[i].attempts)],
                       lines, i + 1, torn))

load(st, torn) == Then(st, LAMBDA s : LoadLoop(s, s.disk.queue, 1, torn))
-----------------------------------------------------------------------------
(* RemoteFile.get with its clock: the request limiter and the backoff.     *)
(* Time is counted in ticks, Unit ticks to the second, so that             *)
(* min_request_interval * 1.5^failed is a whole number of ticks for every  *)
(* failed <= MaxFailed.  requests['last'] is kept as the time since it was *)
(* set (since), up to Far ticks; it starts at 0, the epoch, which is Far.  *)

MaxFailed == 3

Unit == 2^MaxFailed

\* Config.min_request_interval and Config.max_request_interval, in seconds
min_request_interval == 1
max_request_interval == 60

\* collector.conf may set min_request_interval (:87-88); max_request_interval
\* is not a key Config.__init__ accepts
MinIntervals == {min_request_interval, 32}

Far == 64 * Unit

\* the time between the return of one get() and the next call, and the time
\* requests.get takes
Waits == {0, Unit \div 4, Unit, Far}
Tooks == {0, Unit \div 2}

NoRequests == [since |-> Far, failed |-> 0, sent |-> FALSE]

NoCall == [some |-> FALSE, first |-> TRUE, time_diff |-> 0, slept |-> 0, gap |-> 0,
           outcome |-> "ok", before |-> 0, backoff |-> 0, exc |-> "none",
           returned |-> FALSE]

\* :413-415  sleep = min_request_interval * pow(1.5, failed), at most
\* max_request_interval; in ticks
BackoffSleep(base, failed) ==
    Min((base * Unit * 3^failed) \div 2^failed, max_request_interval * Unit)

\* RemoteFile.get without the reset of :422
RemoteFile_get_keeps_failed(req, base, wait, outcome, took, hasLength) ==
    LET time_diff == Min(req.since + wait, Far)
        slept     == IF time_diff < base * Unit THEN time_diff ELSE 0
        bad       == outcome = "http"
        sleep     == IF bad THEN BackoffSleep(base, req.failed) ELSE 0
    IN  [requests |-> [since  |-> Min(took + sleep, Far),
                       failed |-> IF bad THEN req.failed + 1 ELSE req.failed,
                       sent   |-> TRUE],
         call     |-> [some |-> TRUE, first |-> ~req.sent, time_diff |-> time_diff,
                       slept |-> slept, gap |-> Min(time_diff + slept, Far),
                       outcome |-> outcome, before |-> req.failed, backoff |-> sleep,
                       exc |-> GetExc(outcome, hasLength),
                       returned |-> outcome = "ok"]]

\* RemoteFile.get, collector.py:384-423.  req is RemoteFile.requests, base is
\* config.min_request_interval; the call comes wait ticks after the last
\* get() ended and requests.get takes took ticks.
\*   :386-389  time_diff = now - last; below the interval, sleep(time_diff)
\*   :395      last = now
\*   :399-403  no response: RequestException, the counter is left alone
\*   :411-412  400..499: ParserError, no sleep, the counter is left alone
\*   :413-420  other non-2xx: sleep, failed += 1, BadHTTPStatus
\*   :422-423  2xx: failed = 0, the content is returned
RemoteFile_get(req, base, wait, outcome, took, hasLength) ==
    LET time_diff == Min(req.since + wait, Far)
        slept     == IF time_diff < base * Unit THEN time_diff ELSE 0
        bad       == outcome = "http"
        sleep     == IF bad THEN BackoffSleep(base, req.failed) ELSE 0
    IN  [requests |-> [since  |-> Min(took + sleep, Far),
                       failed |-> IF outcome = "ok" THEN 0
                                  ELSE IF bad THEN req.failed + 1 ELSE req.failed,
                       sent   |-> TRUE],
         call     |-> [some |-> TRUE, first |-> ~req.sent, time_diff |-> time_diff,
                       slept |-> slept, gap |-> Min(time_diff + slept, Far),
                       outcome |-> outcome, before |-> req.failed, backoff |-> sleep,
                       exc |-> GetExc(outcome, hasLength),
                       returned |-> outcome = "ok"]]
-----------------------------------------------------------------------------
(* The search harness: the search functions applied to every input.        *)

NoClusters == [err |-> "unset", clusters |-> <<>>]
NoRecords  == [err |-> "unset", archives |-> <<>>]

SearchInit ==
    /\ \/ corpus \in GenCorpora /\ qDomain \in GenDomains
       \/ corpus \in ExampleCorpora /\ qDomain = ExampleDomain
    /\ sPc = "start"
    /\ sClusters = NoClusters
    /\ sRecords = NoRecords
    /\ mEntry = <<>>
    /\ mOut = [done |-> FALSE, val |-> FALSE]
    \* main does not run in the search harness
    /\ pc = "off"
    /\ domains = <<>>
    /\ hist = [d \in DomainNames |-> EmptyDoc]
    /\ queue = <<>>
    /\ current_search = NoSearch
    /\ sel = NoSel
    /\ disk = InitDisk
    /\ domainsFile = <<>>
    /\ fileChanged = FALSE
    /\ lastGets = {}
    /\ lastAnswers = {}
    /\ cause = "none"
    /\ lastLocated = NoLocated
    /\ lastFetch = NoFetch
    /\ resume = NoResume
    /\ clean = TRUE
    \* the limiter's clock is not part of the search harness
    /\ interval = min_request_interval
    /\ requests = NoRequests
    /\ call = NoCall
    /\ op = NoOp
    /\ rfile = NoFile

\* Search.findClusters on the corpus' cluster index
LocateClusters ==
    /\ sPc = "start"
    /\ sClusters' = findClusters(corpus.index, searchString(qDomain))
    /\ sPc' = "clusters"
    /\ UNCHANGED <<corpus, qDomain, sRecords, mEntry, mOut>>
    /\ UNCHANGED <<mainVars, limiterVars, ledgerVars>>

\* Search.findArchives on the clusters found (every read succeeding)
LocateRecords ==
    /\ sPc = "clusters"
    /\ sClusters.err = "none"
    /\ sRecords' = findArchives(corpus, sClusters.clusters, searchString(qDomain))
    /\ sPc' = "records"
    /\ UNCHANGED <<corpus, qDomain, sClusters, mEntry, mOut>>
    /\ UNCHANGED <<mainVars, limiterVars, ledgerVars>>

\* is_match on one searchable string
Match ==
    /\ sPc = "start"
    /\ \E e \in EntriesOf(corpus) :
          /\ mEntry' = e
          /\ mOut' = [done |-> TRUE, val |-> is_match(e, searchString(qDomain))]
    /\ sPc' = "matched"
    /\ UNCHANGED <<corpus, qDomain, sClusters, sRecords>>
    /\ UNCHANGED <<mainVars, limiterVars, ledgerVars>>

SearchNext == LocateClusters \/ LocateRecords \/ Match

SpecSearch == SearchInit /\ [][SearchNext]_vars

-----------------------------------------------------------------------------
(* Search, collector.py:521-641, as main drives it.                        *)

IndexReq(what, d, a) == [what |-> what, domain |-> d, archive |-> a, rec |-> <<>>]

\* Search.findClusters with the read of cluster.idx (RemoteFile.read on a
\* cached file without a length: a size probe, then the cache or a GET).
Search_findClusters(st, outcome) ==
    Then([st EXCEPT !.search.clusters = <<>>,
                    !.gets = @ \cup {IndexReq("cluster.idx", st.search.domain,
                                              st.search.archive)}], LAMBDA s :
        LET a   == s.search.archive
            d   == s.search.domain
            req == IndexReq("cluster.idx", d, a)
        IN  Then(IF s.disk.idx[a]
                 THEN IF outcome = "ok" THEN s
                      ELSE IF outcome = "net" THEN Raise(s, "RequestException")
                      \* the sizes differ: the cache file is unlinked and fetched again
                      ELSE get(Persist(s, [s.disk EXCEPT !.idx[a] = FALSE]), req, outcome, FALSE)
                 ELSE Then(get(s, req, outcome, FALSE), LAMBDA g :
                           IF g.exc = "none"
                           THEN Persist(g, [g.disk EXCEPT !.idx[a] = TRUE])
                           ELSE g), LAMBDA s1 :
                 IF s1.exc # "none" THEN s1
                 ELSE Then(findClusters(CorpusOf(a).index, searchString(d)), LAMBDA r :
                           IF r.err # "none" THEN Raise(s1, r.err)
                           ELSE [s1 EXCEPT !.search.clusters = r.clusters])))

\* findArchives without the update of results: a variant on which
\* C6_ResultsRecorded fails
Search_findArchives_unrecorded(st, failAt, failOutcome) ==
    Then(st, LAMBDA s :
        LET a == s.search.archive
            d == s.search.domain
        IN  Then(ArchivesLoop(CorpusOf(a), s.search.clusters, 1, searchString(d), <<>>,
                              failAt, GetExc(failOutcome, TRUE)), LAMBDA r :
            Then([s EXCEPT !.search.archives = r.archives,
                           !.gets = @ \cup {IndexReq("shard", d, a)}], LAMBDA s1 :
                 IF r.err # "none" THEN Raise(s1, r.err)
                 ELSE Then(updateHistory(s1, "search", d, a, "completed", 0), LAMBDA s2 :
                           [s2 EXCEPT !.located = [some |-> TRUE, domain |-> d,
                                                   archive |-> a, n |-> Len(r.archives)]]))))

\* Search.findArchives; the read of block failAt ends as failOutcome says.
Search_findArchives(st, failAt, failOutcome) ==
    Then(st, LAMBDA s :
        LET a == s.search.archive
            d == s.search.domain
        IN  Then(ArchivesLoop(CorpusOf(a), s.search.clusters, 1, searchString(d), <<>>,
                              failAt, GetExc(failOutcome, TRUE)), LAMBDA r :
            Then([s EXCEPT !.search.archives = r.archives,
                           !.gets = @ \cup {IndexReq("shard", d, a)}], LAMBDA s1 :
                 IF r.err # "none" THEN Raise(s1, r.err)
                 ELSE Then(IF Len(r.archives) = 0
                           THEN updateHistory(s1, "search", d, a, "completed", 0)
                           ELSE s1, LAMBDA s2 :
                      Then(updateHistory(s2, "search", d, a, "results", Len(r.archives)),
                           LAMBDA s3 :
                           [s3 EXCEPT !.located = [some |-> TRUE, domain |-> d,
                                                   archive |-> a, n |-> Len(r.archives)]])))))

\* getFile that does not advance completed past the last record: a variant
\* on which C7_DoneAfterAllFetched fails
getFile_keeps_last(st, outcome) ==
    Then(st, LAMBDA s :
        LET a == s.search.archive
            d == s.search.domain
            h == ObjHist(s, "search", d)[a]
            position == IF ~h.in THEN 0 ELSE h.completed
        IN  IF ~PyInRange(s.search.archives, position) THEN Raise(s, "IndexError")
            ELSE IF ~h.in THEN Raise(s, "KeyError")
            ELSE IF h.results = 0 THEN Raise(s, "ZeroDivisionError")
            ELSE LET json == PyAt(s.search.archives, position)
                     rf   == [rec |-> json, domain |-> d, archive |-> a, attempts |-> 0]
                     sel0 == [some |-> TRUE, domain |-> d, archive |-> a,
                              pos |-> position, rec |-> json,
                              sent |-> FALSE, got |-> FALSE, raised |-> "none"]
                 IN  Then(download(s, rf, outcome), LAMBDA s1 :
                          updateHistory(
                              [s1 EXCEPT !.fetch =
                                  [sel0 EXCEPT !.sent = RecordReq(rf) \in s1.gets,
                                               !.got = /\ RecordReq(rf) \in s1.gets
                                                       /\ outcome = "ok",
                                               !.raised = s1.exc]],
                              "search", d, a, "completed",
                              Min(position + 1, Len(s.search.archives) - 1))))

\* Search.getFile
getFile(st, outcome) ==
    Then(st, LAMBDA s :
        LET a == s.search.archive
            d == s.search.domain
            h == ObjHist(s, "search", d)[a]
            position == IF ~h.in THEN 0 ELSE h.completed
        IN  IF ~PyInRange(s.search.archives, position) THEN Raise(s, "IndexError")
            \* :616 reads history[archiveID]['results'] and divides by it
            ELSE IF ~h.in THEN Raise(s, "KeyError")
            ELSE IF h.results = 0 THEN Raise(s, "ZeroDivisionError")
            ELSE LET json     == PyAt(s.search.archives, position)
                     fileInfo == LoadsJson(json)
                     sel0     == [some |-> TRUE, domain |-> d, archive |-> a,
                                  pos |-> position, rec |-> json,
                                  sent |-> FALSE, got |-> FALSE, raised |-> "none"]
                     rf       == [rec |-> json, domain |-> d, archive |-> a, attempts |-> 0]
                 IN  IF fileInfo.length > max_file_size
                     THEN updateHistory([s EXCEPT !.fetch = sel0], "search", d, a,
                                        "completed", position + 1)
                     ELSE \* try: rf.download()  finally: updateHistory(...)
                          Then(download(s, rf, outcome), LAMBDA s1 :
                               updateHistory(
                                   [s1 EXCEPT !.fetch =
                                       [sel0 EXCEPT !.sent = RecordReq(rf) \in s1.gets,
                                                    !.got = /\ RecordReq(rf) \in s1.gets
                                                            /\ outcome = "ok",
                                                    !.raised = s1.exc]],
                                   "search", d, a, "completed", position + 1)))

\* Search.process; ch holds what each request of the step comes back with.
process(st, ch) ==
    Then(IF st.search.clusters = <<>> THEN Search_findClusters(st, ch.idx) ELSE st, LAMBDA s1 :
        IF s1.exc # "none" THEN s1
        ELSE Then(IF s1.search.archives = <<>>
                  THEN Search_findArchives(s1, ch.failAt, ch.shard)
                  ELSE s1, LAMBDA s2 :
                  IF s2.exc # "none" THEN s2
                  ELSE IF Len(s2.search.archives) > 0 THEN getFile(s2, ch.rec)
                  ELSE s2))

-----------------------------------------------------------------------------
(* main, collector.py:645-737                                              *)

MaxDrift == 1

\* :681-689 the lines of domains.conf, duplicates skipped
RECURSIVE ReadDomainList(_, _, _)
ReadDomainList(lines, i, acc) ==
    IF i > Len(lines) THEN acc
    ELSE ReadDomainList(lines, i + 1,
             IF lines[i] \in {acc[k] : k \in 1..Len(acc)} THEN acc ELSE Append(acc, lines[i]))

\* :697-707 the first (domain, archive) pair with work left
Pending(h, a) == ~h[a].in \/ h[a].completed < h[a].results

RECURSIVE SelectLoop(_, _, _, _)
SelectLoop(ds, h, i, j) ==
    IF i > Len(ds) THEN NoSel
    ELSE IF j > Len(ArchiveIDs) THEN SelectLoop(ds, h, i + 1, 1)
    ELSE IF Pending(h[ds[i]], ArchiveIDs[j])
         THEN [some |-> TRUE, domain |-> ds[i], archive |-> ArchiveIDs[j]]
         ELSE SelectLoop(ds, h, i, j + 1)

Select(ds, h) == SelectLoop(ds, h, 1, 1)

Pack ==
    [hist |-> hist, domains |-> domains, queue |-> queue, search |-> current_search,
     disk |-> disk, gets |-> {}, answers |-> {}, trail |-> <<>>, exc |-> "none",
     located |-> NoLocated, fetch |-> NoFetch]

\* the model's bounds on the counters a run of failures drives up or down
InBounds(st) ==
    /\ Len(st.queue) <= MaxQueue
    /\ \A d \in DomainNames, a \in Archives :
          /\ st.hist[d][a].failed \in (0 - MaxDrift)..MaxDrift
          /\ st.search.shist[a].failed \in (0 - MaxDrift)..MaxDrift
          /\ st.disk.hist[d].doc[a].failed \in (0 - MaxDrift)..MaxDrift

SamePair(x, y) == x.domain = y.domain /\ x.archive = y.archive

\* The record kept for the resumed run lasts until getFile has worked on
\* its pair once.
Carry == IF resume.some /\ lastFetch.some /\ SamePair(resume, lastFetch) THEN NoResume ELSE resume

\* The process ends: by an exception nothing catches, or by being terminated.
\* Nothing but the local files is left.
Die(d, why, gets, ans, loc, fet, res) ==
    /\ pc' = "dead"
    /\ cause' = why
    /\ disk' = d
    /\ lastGets' = gets
    /\ lastAnswers' = ans
    /\ domains' = <<>>
    /\ hist' = [x \in DomainNames |-> EmptyDoc]
    /\ queue' = <<>>
    /\ current_search' = NoSearch
    /\ sel' = NoSel
    /\ lastLocated' = loc
    /\ lastFetch' = fet
    /\ resume' = res
    /\ clean' = FALSE
    /\ UNCHANGED <<domainsFile, fileChanged>>

\* The step ran to its end (st.exc tells how).
Complete(st, nextPc, nextSel, allOk) ==
    /\ InBounds(st)
    /\ IF st.exc # "none"
       THEN Die(st.disk, st.exc, st.gets, st.answers, st.located, st.fetch, Carry)
       ELSE /\ pc' = nextPc
            /\ sel' = nextSel
            /\ hist' = st.hist
            /\ domains' = st.domains
            /\ queue' = st.queue
            /\ current_search' = st.search
            /\ disk' = st.disk
            /\ lastGets' = st.gets
            /\ lastAnswers' = st.answers
            /\ lastLocated' = st.located
            /\ lastFetch' = st.fetch
            /\ resume' = Carry
            /\ clean' = (clean /\ allOk)
            /\ UNCHANGED <<cause, domainsFile, fileChanged>>

\* The files as a kill after k writes of the step leaves them: is a
\* downloaded record on disk whose pair's completed has not been advanced?
Interrupted(st, k) ==
    LET f == st.fetch
        t == st.trail[k]
    IN  IF /\ f.some
           /\ f.got
           /\ RecordReq(f) \in t.gets
           /\ t.disk.files[f.rec] = "full"
           /\ t.disk.hist[f.domain].ok
           /\ t.disk.hist[f.domain].doc[f.archive].completed = f.pos
        THEN [some |-> TRUE, domain |-> f.domain, archive |-> f.archive, pos |-> f.pos,
              rec |-> f.rec]
        ELSE Carry

\* The process is terminated during the step, after k of its writes.
Killed(st, k) ==
    /\ k < Len(st.trail) \/ k = 0
    /\ IF k = 0 THEN Die(disk, "killed", {}, {}, NoLocated, NoFetch, Carry)
       ELSE /\ InBounds([st EXCEPT !.disk = st.trail[k].disk])
            /\ Die(st.trail[k].disk, "killed", st.trail[k].gets, {}, NoLocated, NoFetch,
                   Interrupted(st, k))

MainInit ==
    /\ pc = "boot"
    /\ domains = <<>>
    /\ hist = [d \in DomainNames |-> EmptyDoc]
    /\ queue = <<>>
    /\ current_search = NoSearch
    /\ sel = NoSel
    /\ disk = InitDisk
    /\ domainsFile \in DomainLists
    /\ fileChanged = TRUE
    /\ lastGets = {}
    /\ lastAnswers = {}
    /\ cause = "none"
    /\ lastLocated = NoLocated
    /\ lastFetch = NoFetch
    /\ resume = NoResume
    /\ clean = TRUE
    \* the search harness is idle while main runs
    /\ corpus = ExampleCorpus1
    /\ qDomain = ExampleDomain
    /\ sPc = "off"
    /\ sClusters = NoClusters
    /\ sRecords = NoRecords
    /\ mEntry = <<>>
    /\ mOut = [done |-> FALSE, val |-> FALSE]
    \* main's requests are modelled without their clock
    /\ interval = min_request_interval
    /\ requests = NoRequests
    /\ call = NoCall
    /\ op = NoOp
    /\ rfile = NoFile

\* :656-658 retryqueue.load()
Boot ==
    /\ pc = "boot"
    /\ \E torn \in BOOLEAN :
       \E st \in {load(Pack, torn)} :
          \/ Complete(st, "loop", NoSel, TRUE)
          \/ \E k \in 0..Len(st.trail) : Killed(st, k)
    /\ UNCHANGED <<searchVars, limiterVars, ledgerVars>>

\* domains.conf is edited (or touched) between two passes of the loop
EditDomainList ==
    /\ pc = "loop"
    /\ domainsFile' \in DomainLists
    /\ fileChanged' = TRUE
    /\ UNCHANGED <<pc, domains, hist, queue, current_search, sel, disk, lastGets, lastAnswers,
                   cause, lastLocated, lastFetch, resume, clean>>
    /\ UNCHANGED <<searchVars, limiterVars, ledgerVars>>

\* :663-707 the top of the loop: reload the domain list when the file is
\* newer, then pick the pair to work on.  Domain(line) loads the history.
LoopTop ==
    /\ pc = "loop"
    /\ LET ds     == IF fileChanged THEN ReadDomainList(domainsFile, 1, <<>>) ELSE domains
           broken == fileChanged /\ \E i \in 1..Len(ds) : ~disk.hist[ds[i]].ok
           h      == IF fileChanged
                     THEN [d \in DomainNames |->
                             IF d \in {ds[i] : i \in 1..Len(ds)} THEN disk.hist[d].doc ELSE EmptyDoc]
                     ELSE hist
           \* current_search keeps the Domain object it was built with
           s      == IF fileChanged /\ current_search.active /\ ~current_search.stale
                     THEN [current_search EXCEPT !.stale = TRUE,
                                                 !.shist = hist[current_search.domain]]
                     ELSE current_search
       IN  IF broken
           THEN Die(disk, "JSONDecodeError", {}, {}, NoLocated, NoFetch, Carry)
           ELSE /\ pc' = "retry"
                /\ domains' = ds
                /\ hist' = h
                /\ current_search' = s
                /\ sel' = Select(ds, h)
                /\ fileChanged' = FALSE
                /\ lastGets' = {}
                /\ lastAnswers' = {}
                /\ lastLocated' = NoLocated
                /\ lastFetch' = NoFetch
                /\ resume' = Carry
                /\ UNCHANGED <<queue, disk, domainsFile, cause, clean>>
    /\ UNCHANGED <<searchVars, limiterVars, ledgerVars>>

\* :709 retryqueue.process()
RetryStep ==
    /\ pc = "retry"
    /\ \E outcome \in (IF queue = <<>> THEN {"ok"} ELSE GetOutcomes) :
          \E st \in {process_queue(Pack, outcome)} :
              \/ Complete(st, "search", sel, outcome = "ok")
              \/ \E k \in 0..Len(st.trail) : Killed(st, k)
    /\ UNCHANGED <<searchVars, limiterVars, ledgerVars>>

NewSearch(p) ==
    [active |-> TRUE, domain |-> p.domain, archive |-> p.archive, stale |-> FALSE,
     shist |-> EmptyDoc, clusters |-> <<>>, archives |-> <<>>]

\* :711-722 nothing to do: drop the search and sleep
Idle ==
    /\ pc = "search"
    /\ ~sel.some
    /\ pc' = "loop"
    /\ current_search' = NoSearch
    /\ lastGets' = {}
    /\ lastAnswers' = {}
    /\ lastLocated' = NoLocated
    /\ lastFetch' = NoFetch
    /\ resume' = Carry
    /\ UNCHANGED <<domains, hist, queue, sel, disk, domainsFile, fileChanged, cause, clean>>
    /\ UNCHANGED <<searchVars, limiterVars, ledgerVars>>

\* What the requests of one step come back with: all succeed but possibly
\* the last one sent (a failure ends the step).
AllOk == [idx |-> "ok", failAt |-> 0, shard |-> "ok", rec |-> "ok"]

Scenarios(st) ==
    LET a  == st.search.archive
        cl == IF st.search.clusters = <<>>
              THEN findClusters(CorpusOf(a).index, searchString(st.search.domain)).clusters
              ELSE st.search.clusters
        bad == GetOutcomes \ {"ok"}
    IN  {[AllOk EXCEPT !.rec = o] : o \in GetOutcomes}
        \cup (IF st.search.clusters = <<>>
              THEN {[AllOk EXCEPT !.idx = o] : o \in bad}
              ELSE {})
        \cup (IF st.search.archives = <<>>
              THEN {[AllOk EXCEPT !.failAt = k, !.shard = o] : k \in 1..Len(cl), o \in bad}
              ELSE {})

\* :727-735 current_search.process() and main's except clause
SearchStep ==
    /\ pc = "search"
    /\ sel.some
    /\ \E st0 \in {IF current_search.active /\ SamePair(current_search, sel)
                    THEN Pack
                    ELSE [Pack EXCEPT !.search = NewSearch(sel)]} :
       \E ch \in Scenarios(st0) :
       \E st1 \in {process(st0, ch)} :
       \* :731-735 the handler subscripts a BadHTTPStatus, which raises TypeError
       \E st2 \in {IF st1.exc = "RequestException" THEN Raise(st1, "none")
                    ELSE IF st1.exc = "BadHTTPStatus" THEN Raise(st1, "TypeError")
                    ELSE st1} :
          \/ Complete(st2, "loop", sel, ch = AllOk)
          \/ \E k \in 0..Len(st2.trail) : Killed(st2, k)
    /\ UNCHANGED <<searchVars, limiterVars, ledgerVars>>

\* the process is started again
Restart ==
    /\ pc = "dead"
    /\ pc' = "boot"
    /\ fileChanged' = TRUE
    /\ cause' = "none"
    /\ lastGets' = {}
    /\ lastAnswers' = {}
    /\ lastLocated' = NoLocated
    /\ lastFetch' = NoFetch
    /\ resume' = Carry
    /\ UNCHANGED <<domains, hist, queue, current_search, sel, disk, domainsFile, clean>>
    /\ UNCHANGED <<searchVars, limiterVars, ledgerVars>>

MainNext == Boot \/ EditDomainList \/ LoopTop \/ RetryStep \/ Idle \/ SearchStep \/ Restart

Spec == MainInit /\ [][MainNext]_vars
-----------------------------------------------------------------------------
(* The limiter on its own: get() calls of any RemoteFile objects, one      *)
(* after the other (the process is single-threaded).                       *)

LimiterInit ==
    /\ interval \in MinIntervals
    /\ requests = NoRequests
    /\ call = NoCall
    /\ op = NoOp
    /\ rfile = NoFile
    \* neither main nor the search harness runs
    /\ pc = "off"
    /\ domains = <<>>
    /\ hist = [d \in DomainNames |-> EmptyDoc]
    /\ queue = <<>>
    /\ current_search = NoSearch
    /\ sel = NoSel
    /\ disk = InitDisk
    /\ domainsFile = <<>>
    /\ fileChanged = FALSE
    /\ lastGets = {}
    /\ lastAnswers = {}
    /\ cause = "none"
    /\ lastLocated = NoLocated
    /\ lastFetch = NoFetch
    /\ resume = NoResume
    /\ clean = TRUE
    /\ corpus = ExampleCorpus1
    /\ qDomain = ExampleDomain
    /\ sPc = "off"
    /\ sClusters = NoClusters
    /\ sRecords = NoRecords
    /\ mEntry = <<>>
    /\ mOut = [done |-> FALSE, val |-> FALSE]

\* one get() call; the consecutive failures are bounded by MaxFailed
Get ==
    /\ pc = "off" /\ sPc = "off"
    /\ \E wait \in Waits, outcome \in GetOutcomes, took \in Tooks, hasLength \in BOOLEAN :
          /\ outcome = "http" => requests.failed < MaxFailed
          /\ \E r \in {RemoteFile_get(requests, interval, wait, outcome, took, hasLength)} :
                /\ requests' = r.requests
                /\ call' = r.call
    /\ UNCHANGED <<interval, searchVars, mainVars, ledgerVars>>

LimiterNext == Get

SpecLimiter == LimiterInit /\ [][LimiterNext]_vars
-----------------------------------------------------------------------------
(* The retry queue on its own: add(), process(), and save() followed by    *)
(* load(), called on the queues and domain lists the process can hold.     *)

MaxLedger == 3
MaxCalls == 2

\* the entries: a record of b.a and one of ab.a in A1, retried 0 or 1 times
LedgerRecs == {r \in AllRecs : r[2] \in {200, 400}}
LedgerItems ==
    {x \in [rec : LedgerRecs, domain : DomainNames, archive : {"A1"}, attempts : 0..1] :
        x.domain = D1 <=> x.rec[2] = 200}

RECURSIVE SeqsUpTo(_, _)
SeqsUpTo(S, n) ==
    IF n = 0 THEN {<<>>}
    ELSE LET shorter == SeqsUpTo(S, n - 1)
         IN  shorter \cup {Append(q, x) : q \in {r \in shorter : Len(r) = n - 1}, x \in S}

\* the progress of domain d when q is the queue: each entry of q was
\* counted in its pair's failed when it was added
PendingIn(q, d) == Cardinality({i \in 1..Len(q) : q[i].domain = d})
HistWith(q, d) ==
    [EmptyDoc EXCEPT !["A1"] =
        [in |-> TRUE, completed |-> 2, failed |-> PendingIn(q, d), results |-> 2]]

LedgerInit ==
    /\ pc = "ledger"
    /\ domains \in DomainLists
    /\ queue \in SeqsUpTo(LedgerItems, MaxLedger)
    /\ hist = [d \in DomainNames |->
                 IF d \in {domains[i] : i \in 1..Len(domains)}
                 THEN HistWith(queue, d) ELSE EmptyDoc]
    /\ disk = [InitDisk EXCEPT !.hist = [d \in DomainNames |-> FileOf(HistWith(queue, d))],
                               !.queue = LinesOf(queue)]
    /\ op = NoOp
    /\ rfile = NoFile
    /\ current_search = NoSearch
    /\ sel = NoSel
    /\ domainsFile = domains
    /\ fileChanged = FALSE
    /\ lastGets = {}
    /\ lastAnswers = {}
    /\ cause = "none"
    /\ lastLocated = NoLocated
    /\ lastFetch = NoFetch
    /\ resume = NoResume
    /\ clean = TRUE
    /\ corpus = ExampleCorpus1
    /\ qDomain = ExampleDomain
    /\ sPc = "off"
    /\ sClusters = NoClusters
    /\ sRecords = NoRecords
    /\ mEntry = <<>>
    /\ mOut = [done |-> FALSE, val |-> FALSE]
    /\ interval = min_request_interval
    /\ requests = NoRequests
    /\ call = NoCall

\* what a call leaves behind
Called(st, name, item, outcome) ==
    /\ hist' = st.hist
    /\ queue' = st.queue
    /\ disk' = st.disk
    /\ lastGets' = st.gets
    /\ lastAnswers' = st.answers
    /\ op.n < MaxCalls
    /\ op' = [name |-> name, item |-> item, outcome |-> outcome, exc |-> st.exc,
              n |-> op.n + 1]
    /\ UNCHANGED <<pc, domains, current_search, sel, domainsFile, fileChanged, cause,
                   lastLocated, lastFetch, resume, clean>>
    /\ UNCHANGED <<searchVars, limiterVars, rfile>>

\* RetryQueue().add(item)
LedgerAdd ==
    /\ pc = "ledger"
    /\ Len(queue) < MaxLedger
    /\ \E item \in LedgerItems :
          \E st \in {add(Pack, item, FALSE)} : Called(st, "add", item, "ok")

\* retryqueue.process()
LedgerProcess ==
    /\ pc = "ledger"
    /\ queue # <<>>
    /\ \E outcome \in GetOutcomes :
          \E st \in {process_queue(Pack, outcome)} :
              Called(st, "process", Head(queue), outcome)

\* save(), then load() into the empty queue of a new process
LedgerRoundTrip ==
    /\ pc = "ledger"
    /\ \E torn \in BOOLEAN :
          \E st0 \in {save(Pack)} :
          \E st \in {load([st0 EXCEPT !.queue = <<>>], torn)} :
              Called(st, "load", NoOp.item, "ok")

LedgerNext == LedgerAdd \/ LedgerProcess \/ LedgerRoundTrip

SpecLedger == LedgerInit /\ [][LedgerNext]_vars
-----------------------------------------------------------------------------
(* RemoteFile.read, collector.py:347-372, on its own: one RemoteFile, its  *)
(* cache file and the request limiter.  Contents are told by their size.   *)

MaxSize == 2
MaxReads == 2

\* HEAD and GET requests as read() sends them: via_get tells that the request
\* was made by RemoteFile.get, after its limiter (:386-395)
HeadReq == [method |-> "HEAD", via_get |-> FALSE]
GetReq == [method |-> "GET", via_get |-> TRUE]

HeadOutcomes == {"ok", "net"}

\* read() of the RemoteFile f.  req is RemoteFile.requests and base the
\* minimum interval; the call comes wait ticks after the last get() ended;
\* requests.head ends as head says after headTook ticks, requests.get as
\* outcome says after took ticks.
\*   :350-355  a cache file exists: size is self.length, or the
\*             Content-Length of requests.head(self.url)
\*   :357-364  sizes equal: contents is the file; else the file is unlinked
\*   :366-369  `if not contents` (None, or no bytes): get(), and write()
\*             when there is a filename
\* The GET is ranged when offset and length are set (:392-393); here a
\* RemoteFile with a length has an offset.
read(f, req, base, wait, head, headTook, outcome, took) ==
    LET cached   == f.filename /\ f.local >= 0
        probe    == cached /\ f.length = 0
        probeExc == IF probe /\ head = "net" THEN "RequestException" ELSE "none"
        size     == IF f.length > 0 THEN f.length ELSE f.remote
        equal    == cached /\ probeExc = "none" /\ f.local = size
        contents == IF equal THEN f.local ELSE 0 - 1
        unlinked == IF cached /\ probeExc = "none" /\ ~equal THEN 0 - 1 ELSE f.local
        before   == Min(wait + (IF probe THEN headTook ELSE 0), Far)
        probes   == IF probe THEN <<HeadReq>> ELSE <<>>
        g        == RemoteFile_get(req, base, before, outcome, took, f.length > 0)
        fetched  == IF f.length > 0 THEN f.length ELSE f.remote
        idle     == [req EXCEPT !.since = Min(@ + before, Far)]
    IN  IF probeExc # "none"
        THEN [rfile |-> [f EXCEPT !.n = @ + 1, !.reqs = probes, !.from = "none",
                                  !.ret = 0 - 1, !.exc = probeExc, !.sinceLast = headTook],
              requests |-> idle, call |-> NoCall]
        ELSE IF contents > 0
        THEN [rfile |-> [f EXCEPT !.n = @ + 1, !.reqs = probes, !.from = "cache",
                                  !.ret = contents, !.exc = "none", !.sinceLast = headTook],
              requests |-> idle, call |-> NoCall]
        ELSE IF g.call.exc # "none"
        THEN [rfile |-> [f EXCEPT !.n = @ + 1, !.reqs = Append(probes, GetReq),
                                  !.from = "none", !.ret = 0 - 1, !.exc = g.call.exc,
                                  !.local = unlinked, !.sinceLast = g.requests.since],
              requests |-> g.requests, call |-> g.call]
        ELSE [rfile |-> [f EXCEPT !.n = @ + 1, !.reqs = Append(probes, GetReq),
                                  !.from = "get", !.ret = fetched, !.exc = "none",
                                  !.local = IF f.filename THEN fetched ELSE unlinked,
                                  !.sinceLast = g.requests.since],
              requests |-> g.requests, call |-> g.call]

CacheInit ==
    /\ rfile \in {f \in [filename : BOOLEAN, length : 0..MaxSize, local : (0 - 1)..MaxSize,
                         remote : 0..MaxSize, n : {0}, reqs : {<<>>}, from : {"none"},
                         ret : {0 - 1}, exc : {"none"}, sinceLast : {0}] :
                     ~f.filename => f.local = 0 - 1}
    /\ interval \in MinIntervals
    /\ requests = NoRequests
    /\ call = NoCall
    /\ op = NoOp
    \* neither main nor the search harness runs
    /\ pc = "off"
    /\ domains = <<>>
    /\ hist = [d \in DomainNames |-> EmptyDoc]
    /\ queue = <<>>
    /\ current_search = NoSearch
    /\ sel = NoSel
    /\ disk = InitDisk
    /\ domainsFile = <<>>
    /\ fileChanged = FALSE
    /\ lastGets = {}
    /\ lastAnswers = {}
    /\ cause = "none"
    /\ lastLocated = NoLocated
    /\ lastFetch = NoFetch
    /\ resume = NoResume
    /\ clean = TRUE
    /\ corpus = ExampleCorpus1
    /\ qDomain = ExampleDomain
    /\ sPc = "off"
    /\ sClusters = NoClusters
    /\ sRecords = NoRecords
    /\ mEntry = <<>>
    /\ mOut = [done |-> FALSE, val |-> FALSE]

\* one read() call
Read ==
    /\ rfile.n < MaxReads
    /\ \E wait \in Waits, head \in HeadOutcomes, outcome \in GetOutcomes, took \in Tooks :
          /\ outcome = "http" => requests.failed < MaxFailed
          /\ \E r \in {read(rfile, requests, interval, wait, head, took, outcome, took)} :
                /\ rfile' = r.rfile
                /\ requests' = r.requests
                /\ call' = r.call
    /\ UNCHANGED <<interval, searchVars, mainVars, op>>

CacheNext == Read

SpecCache == CacheInit /\ [][CacheNext]_vars
-----------------------------------------------------------------------------
(* main with a fixed domains.conf, left to run: no kill, no restart, and   *)
(* requests that fail with a network error or a 5xx status but succeed in  *)
(* the end.                                                                *)

TransientOutcomes == {"net", "http"}

\* :656-658 retryqueue.load() of a file read in one piece
LiveBoot ==
    /\ pc = "boot"
    /\ \E st \in {load(Pack, FALSE)} : Complete(st, "loop", NoSel, TRUE)
    /\ UNCHANGED <<searchVars, limiterVars, ledgerVars>>

\* :709 retryqueue.process(), the GET of the head entry ending as outcome says
Retry(outcome) ==
    /\ pc = "retry"
    /\ queue = <<>> => outcome = "ok"
    /\ \E st \in {process_queue(Pack, outcome)} : Complete(st, "search", sel, outcome = "ok")
    /\ UNCHANGED <<searchVars, limiterVars, ledgerVars>>

\* :724-735 current_search.process(), its requests ending as ch says
Fetch(ch) ==
    /\ pc = "search"
    /\ sel.some
    /\ \E st0 \in {IF current_search.active /\ SamePair(current_search, sel)
                    THEN Pack
                    ELSE [Pack EXCEPT !.search = NewSearch(sel)]} :
       /\ ch \in Scenarios(st0)
       /\ \E st1 \in {process(st0, ch)} :
          \E st2 \in {IF st1.exc = "RequestException" THEN Raise(st1, "none")
                       ELSE IF st1.exc = "BadHTTPStatus" THEN Raise(st1, "TypeError")
                       ELSE st1} :
             Complete(st2, "loop", sel, ch = AllOk)
    /\ UNCHANGED <<searchVars, limiterVars, ledgerVars>>

TransientScenarios ==
    [idx : TransientOutcomes \cup {"ok"}, failAt : 0..MaxEntries,
     shard : TransientOutcomes \cup {"ok"}, rec : TransientOutcomes \cup {"ok"}] \ {AllOk}

RetryOk == Retry("ok")
RetryFails == \E o \in TransientOutcomes : Retry(o)
FetchOk == Fetch(AllOk)
FetchFails == \E ch \in TransientScenarios : Fetch(ch)

LiveNext == LiveBoot \/ LoopTop \/ Idle \/ RetryOk \/ RetryFails \/ FetchOk \/ FetchFails

\* The loop never stops by itself (WF), and a request that is sent again and
\* again succeeds in the end (SF on the steps whose requests all succeed).
SpecLive ==
    /\ MainInit
    /\ [][LiveNext]_vars
    /\ WF_vars(LiveNext)
    /\ SF_vars(RetryOk)
    /\ SF_vars(FetchOk)
-----------------------------------------------------------------------------
(* Properties of the search functions.                                     *)

\* The match predicate as the specification words it, position by position.
MatchesKey(entry, K) ==
    /\ Len(entry) > Len(K)
    /\ \A i \in 1..Len(K) : entry[i] = K[i]
    /\ entry[Len(K) + 1] \in {RParen, Comma}

\* The lower-bound insertion point of x: the number of entries below x.
LowerBound(index, x) == Cardinality({i \in 1..Len(index) : TupleLess(index[i], x)})

Range(s) == {s[i] : i \in 1..Len(s)}
ComExample == searchString(ExampleDomain)
qKey == searchString(qDomain)
ClustersReturned == sPc \in {"clusters", "records"} /\ sClusters.err = "none"

\* C1 (Boundary inclusion): on the index <<R0, R1, R2>> the search for
\* example.com returns exactly R0 and R1, and whenever the insertion point is
\* 0 nothing but the matching run is returned.
C1_BoundaryInclusion ==
    /\ (sPc \in {"clusters", "records"} /\ corpus.index = <<R0, R1, R2>> /\ qDomain = ExampleDomain)
          => (sClusters.err = "none" /\ Range(sClusters.clusters) = {R0, R1})
    /\ (ClustersReturned /\ LowerBound(corpus.index, ClusterProbe(qKey)) = 0)
          => \A i \in 1..Len(sClusters.clusters) : MatchesKey(sClusters.clusters[i][1], qKey)

\* C2 (Contiguity): the list returned by findClusters is a run of consecutive
\* entries of the index, and every element but the first matches the key.
C2_Contiguity ==
    ClustersReturned =>
        /\ \E s \in 1..Len(corpus.index) :
              /\ s + Len(sClusters.clusters) - 1 <= Len(corpus.index)
              /\ sClusters.clusters = SubSeq(corpus.index, s, s + Len(sClusters.clusters) - 1)
        /\ \A i \in 2..Len(sClusters.clusters) : MatchesKey(sClusters.clusters[i][1], qKey)

\* C3: the first element returned is the entry just before the insertion
\* point of K+")", the rest are all the matching entries of the index.
C3_PrecedingThenAllMatches ==
    ClustersReturned =>
        LET lb == LowerBound(corpus.index, ClusterProbe(qKey))
        IN  /\ lb >= 1
            /\ Len(sClusters.clusters) >= 1
            /\ sClusters.clusters[1] = corpus.index[lb]
            /\ Tail(sClusters.clusters) =
                   SelectSeq(corpus.index, LAMBDA e : MatchesKey(e[1], qKey))

\* The json fields of the matching entries of the located blocks, block by
\* block in index order, each block once.
RECURSIVE ExpectedRecords(_, _, _, _)
ExpectedRecords(c, located, K, b) ==
    IF b > Len(c.index) THEN <<>>
    ELSE (IF c.index[b] \in located
          THEN LET hits == SelectSeq(c.blocks[b], LAMBDA e : MatchesKey(e[1], K))
               IN  [i \in 1..Len(hits) |-> hits[i][3]]
          ELSE <<>>)
         \o ExpectedRecords(c, located, K, b + 1)

\* C4: findArchives returns, in index order and each once, the matching
\* shard entries of the located blocks; 2 records on the 1-block example.
C4_RecordsExactlyOnce ==
    (sPc = "records" /\ sRecords.err = "none") =>
        /\ sRecords.archives = ExpectedRecords(corpus, Range(sClusters.clusters), qKey, 1)
        /\ corpus = ExampleCorpus1 => Len(sRecords.archives) = 2

\* C5 (Match predicate): is_match(entry, K) holds exactly when entry starts
\* with K+")" or K+","; true, true and false on the three examples.
C5_MatchPredicate ==
    mOut.done =>
        /\ mOut.val <=> MatchesKey(mEntry, qKey)
        /\ (qKey = ComExample /\ mEntry \in {ExKeyExact, ExKeySub}) => mOut.val
        /\ (qKey = ComExample /\ mEntry = ExKeyOther) => ~mOut.val

C5_Witness == mOut.done /\ qKey = ComExample /\ mEntry = ExKeySub /\ mOut.val

\* for orientation: C2-C4 away from insertion point 0
Aux_C3_NoWrap ==
    (ClustersReturned /\ LowerBound(corpus.index, ClusterProbe(qKey)) >= 1) =>
        /\ C3_PrecedingThenAllMatches /\ C2_Contiguity
Aux_C4_NoWrap ==
    (ClustersReturned /\ LowerBound(corpus.index, ClusterProbe(qKey)) >= 1) => C4_RecordsExactlyOnce

-----------------------------------------------------------------------------
(* Properties of the collector process, under Spec.                        *)

\* status.py:19-21, the done test of the status report
IsDone(e) == e.results = 0 \/ (e.completed = e.results /\ e.failed = 0)

DiskEntry(d, a) == disk.hist[d].doc[a]
DoneOnDisk(p) ==
    /\ disk.hist[p.domain].ok
    /\ DiskEntry(p.domain, p.archive).in
    /\ IsDone(DiskEntry(p.domain, p.archive))

ReqsFor(gets, p) == {r \in gets : r.domain = p.domain /\ r.archive = p.archive}
RecordReqsFor(gets, p) == {r \in ReqsFor(gets, p) : r.what = "record"}

\* C6: when findArchives has completed for a pair, the pair's stored results
\* is the number of records it returned; when that number is zero the pair is
\* done at once (results = 0, completed = 0) and no record is fetched for it.
C6_ResultsRecorded ==
    lastLocated.some =>
        LET e == DiskEntry(lastLocated.domain, lastLocated.archive)
        IN  /\ disk.hist[lastLocated.domain].ok
            /\ e.in
            /\ e.results = lastLocated.n
            /\ pc # "dead" =>
                  (IF current_search.stale THEN current_search.shist
                   ELSE hist[lastLocated.domain])[lastLocated.archive].results = lastLocated.n
            /\ lastLocated.n = 0 =>
                  /\ e.completed = 0
                  /\ IsDone(e)
                  /\ ~lastFetch.some
                  /\ RecordReqsFor(lastGets, lastLocated) = {}

C6_Witness ==
    /\ pc = "loop"
    /\ lastLocated.some
    /\ lastLocated.n = 0
    /\ DoneOnDisk(lastLocated)

\* every record findArchives returned for the pair of current_search is on disk
AllFetched ==
    /\ pc \in {"loop", "retry", "search"}
    /\ current_search.active
    /\ current_search.archives # <<>>
    /\ \A i \in 1..Len(current_search.archives) :
          disk.files[current_search.archives[i]] = "full"

\* C7: after every record findArchives returned for a pair has been fetched
\* successfully, one per cycle and with no failure, the pair is done:
\* completed = results and failed = 0.
C7_DoneAfterAllFetched ==
    (clean /\ AllFetched) =>
        LET e == DiskEntry(current_search.domain, current_search.archive)
        IN  /\ disk.hist[current_search.domain].ok
            /\ e.in
            /\ e.results = Len(current_search.archives)
            /\ e.completed = e.results
            /\ e.failed = 0
            /\ IsDone(e)

C7_Witness ==
    /\ clean
    /\ AllFetched
    /\ Len(current_search.archives) = 2
    /\ lastFetch.some /\ lastFetch.got /\ lastFetch.pos = 1

\* C8: once a pair is done, a later run of the fetch step for that pair sends
\* no request for the pair and leaves its counters as they are.
C8_Idempotence ==
    [][ (pc = "search" /\ sel.some /\ DoneOnDisk(sel)) =>
           /\ ReqsFor(lastGets', sel) = {}
           /\ disk'.hist[sel.domain].doc[sel.archive] = DiskEntry(sel.domain, sel.archive) ]_vars

\* the first run of getFile on the pair of the record a kill interrupted
Resumed == resume.some /\ lastFetch.some /\ SamePair(resume, lastFetch)

Entries(d, a) ==
    {hist[d][a]}
    \cup (IF disk.hist[d].ok THEN {DiskEntry(d, a)} ELSE {})
    \cup (IF current_search.active /\ current_search.stale /\ current_search.domain = d
          THEN {current_search.shist[a]} ELSE {})

\* C10 (first part): 0 <= completed <= results for every pair whose results
\* is recorded.
Aux_C10_CompletedWithinResults ==
    \A d \in DomainNames, a \in Archives :
        \A e \in Entries(d, a) : e.in => (0 <= e.completed /\ e.completed <= e.results)

\* C10: 0 <= completed <= results, and so the position getFile uses
\* (completed) is a valid index into the records found, whenever the fetch
\* step is about to run on them.
C10_PositionValid ==
    /\ Aux_C10_CompletedWithinResults
    /\ (/\ pc = "search"
        /\ sel.some
        /\ current_search.active
        /\ SamePair(current_search, sel)
        /\ current_search.clusters # <<>>
        /\ current_search.archives # <<>>) =>
           LET h == (IF current_search.stale THEN current_search.shist
                     ELSE hist[sel.domain])[sel.archive]
           IN  PyInRange(current_search.archives, IF h.in THEN h.completed ELSE 0)

\* C10's position while current_search holds the listed Domain object.  It
\* fails too: a findArchives call that a failed read ended leaves a partial
\* self.archives, which the next cycle indexes with completed.
Aux_C10_NotStale ==
    (/\ pc = "search"
     /\ sel.some
     /\ current_search.active
     /\ ~current_search.stale
     /\ SamePair(current_search, sel)
     /\ current_search.clusters # <<>>
     /\ current_search.archives # <<>>) =>
        PyInRange(current_search.archives,
                  IF hist[sel.domain][sel.archive].in
                  THEN hist[sel.domain][sel.archive].completed ELSE 0)

\* C8 away from a reloaded domain list
Aux_C8_NotStale ==
    [][ (pc = "search" /\ sel.some /\ DoneOnDisk(sel) /\ ~current_search.stale) =>
           /\ ReqsFor(lastGets', sel) = {}
           /\ disk'.hist[sel.domain].doc[sel.archive] = DiskEntry(sel.domain, sel.archive) ]_vars
-----------------------------------------------------------------------------
(* Progress store, request limiter and retry queue.                        *)

\* the progress map the search session reads and writes for domain d
SearchView(d) == IF current_search.stale THEN current_search.shist ELSE hist[d]

\* C11: the progress the search session reads for its domain is the progress
\* the driver's pending test and the retry queue read (the listed Domain
\* object), also after the domain list was reloaded during the session.
C11_SingleSource ==
    (pc # "dead" /\ current_search.active) =>
        SearchView(current_search.domain) = hist[current_search.domain]

\* the domains some Domain object of the running process holds progress for
Alive == pc \in {"loop", "retry", "search"}
ListedNow == {domains[i] : i \in 1..Len(domains)}

\* C12: between operations the persisted document of a domain is the
\* in-memory progress map of every Domain object the process holds for it, so
\* that a restart reloads the counters last recorded.
C12_PersistedEqualsMemory ==
    Alive =>
        /\ \A d \in ListedNow : disk.hist[d] = FileOf(hist[d])
        /\ current_search.active =>
              disk.hist[current_search.domain] = FileOf(SearchView(current_search.domain))

\* C12 while current_search holds the listed Domain object (holds)
Aux_C12_NotStale ==
    (Alive /\ ~current_search.stale) =>
        /\ \A d \in ListedNow : disk.hist[d] = FileOf(hist[d])
        /\ current_search.active /\ current_search.domain \in ListedNow =>
              disk.hist[current_search.domain] = FileOf(SearchView(current_search.domain))

\* C12, the consequence alone: the counters the search session recorded last
\* for its pair are the ones a restart would reload.  It fails after a
\* reload: the two Domain objects of the domain overwrite each other's document.
Aux_C12_LastRecordedOnDisk ==
    (Alive /\ current_search.active) =>
        /\ disk.hist[current_search.domain].ok
        /\ DiskEntry(current_search.domain, current_search.archive)
              = SearchView(current_search.domain)[current_search.archive]

\* C13: loading a domain's progress never ends the process: a missing or
\* malformed document gives the domain an empty progress map.
C13_LoadNeverFails ==
    /\ ~(pc = "dead" /\ cause = "JSONDecodeError")
    /\ Alive => \A d \in ListedNow : ~disk.hist[d].ok => hist[d] = EmptyDoc

\* C14: two successive requests are at least the minimum interval apart; a
\* get() called before the interval has elapsed sleeps for the remaining
\* time, interval minus elapsed.
C14_MinimumGap ==
    (call.some /\ ~call.first) =>
        /\ call.gap >= interval * Unit
        /\ call.time_diff < interval * Unit =>
              call.slept = interval * Unit - call.time_diff

\* C15: the k-th consecutive failed response since the last success
\* (k = 1, 2, ...) is followed by a backoff sleep of
\* min(base * 1.5^k, maximum), base being the minimum request interval.
C15_BackoffGrowth ==
    (call.some /\ call.outcome = "http") =>
        LET k == call.before + 1
        IN  call.backoff = Min((interval * Unit * 3^k) \div 2^k, max_request_interval * Unit)

\* C16: after every non-success response, 400-499 included, get() sleeps the
\* backoff and advances the consecutive-failure counter before it raises.
C16_BackoffOnEveryFailure ==
    (call.some /\ call.outcome \in {"http", "4xx"}) =>
        /\ call.exc # "none"
        /\ call.backoff = BackoffSleep(interval, call.before)
        /\ call.backoff > 0
        /\ requests.failed = call.before + 1

\* C16 for the statuses outside 400-499 (holds)
Aux_C16_Transient ==
    (call.some /\ call.outcome = "http") =>
        /\ call.exc = "BadHTTPStatus"
        /\ call.backoff = BackoffSleep(interval, call.before)
        /\ call.backoff > 0
        /\ requests.failed = call.before + 1

LedgerEntries(q, r) ==
    {i \in 1..Len(q) : LET e == ItemOfLine(q[i])
                        IN  e.domain = r.domain /\ e.archive = r.archive /\ e.rec = r.rec}

RecordAnswers == {x \in lastAnswers : x.req.what = "record"}

\* C18: a record download answered with a 400-499 status is not in the retry
\* queue afterwards (never enrolled, not retried); one answered with another
\* non-2xx status is.
C18_StatusClassification ==
    \A x \in RecordAnswers :
        /\ x.outcome = "4xx"  => LedgerEntries(disk.queue, x.req) = {}
        /\ x.outcome = "http" => LedgerEntries(disk.queue, x.req) # {}

\* C18 for the downloads getFile starts.  It fails after a reload: add()
\* looks the pair up in the listed Domain object, which has no entry for it.
Aux_C18_FirstDownload ==
    \A x \in RecordAnswers :
        (lastFetch.some /\ x.req = RecordReq(lastFetch)) =>
            /\ x.outcome = "4xx"  => LedgerEntries(disk.queue, x.req) = {}
            /\ x.outcome = "http" => LedgerEntries(disk.queue, x.req) # {}

\* the answers to the record download getFile started in the last step
FetchAnswers == {x \in RecordAnswers : lastFetch.some /\ x.req = RecordReq(lastFetch)}

\* C19: when the fetch inside download() fails with a transient error, the
\* record is enqueued exactly once and the error is raised again to the
\* caller of download().
C19_EnqueueOnceAndReraise ==
    \A x \in FetchAnswers :
        x.outcome \in {"net", "http"} =>
            /\ Cardinality(LedgerEntries(disk.queue, x.req)) = 1
            /\ lastFetch.raised \in {"RequestException", "BadHTTPStatus"}

\* C19 without the raise, for the steps that run to their end: enqueued
\* exactly once
Aux_C19_EnqueuedOnce ==
    \A x \in FetchAnswers :
        (x.outcome \in {"net", "http"} /\ pc # "dead") =>
            Cardinality(LedgerEntries(disk.queue, x.req)) = 1

\* the entry download() hands to RetryQueue.add for the record of request r
EntryOf(r) == [rec |-> r.rec, domain |-> r.domain, archive |-> r.archive, attempts |-> 0]

Transient(x) == x.outcome \in {"net", "http"}

\* add() as the claim has it, on the step from the unprimed to the primed
\* state: q is the queue add() found and failedBefore the pair's failed in
\* the listed Domain object.  Nothing after add() in the step touches the
\* queue or that counter.
Enqueued(r, q, failedBefore) ==
    /\ pc' # "dead"
    /\ hist'[r.domain][r.archive].in
    /\ hist'[r.domain][r.archive].failed = failedBefore + 1
    /\ queue' = Append(q, EntryOf(r))
    /\ disk'.queue = LinesOf(queue')

TransientRecordAnswers(answers) ==
    {y \in answers : y.req.what = "record" /\ Transient(y)}

\* C20: add() of a record whose domain is configured raises the pair's failed
\* by exactly one, appends the entry at the tail of the queue and persists
\* the whole queue, the entries already queued keeping their order.
C20_Enqueue ==
    [][ /\ pc = "search" =>
            \A x \in TransientRecordAnswers(lastAnswers') :
                Enqueued(x.req, queue, hist[x.req.domain][x.req.archive].failed)
        /\ pc = "retry" =>
            \A x \in TransientRecordAnswers(lastAnswers') :
                \* process() took the entry off the head and lowered failed
                Enqueued(x.req, Tail(queue), hist[x.req.domain][x.req.archive].failed - 1)
      ]_vars

\* C20 while current_search holds the listed Domain object
Aux_C20_NotStale ==
    [][ ~current_search.stale =>
        /\ pc = "search" =>
            \A x \in TransientRecordAnswers(lastAnswers') :
                Enqueued(x.req, queue, hist[x.req.domain][x.req.archive].failed)
        /\ pc = "retry" =>
            \A x \in TransientRecordAnswers(lastAnswers') :
                Enqueued(x.req, Tail(queue), hist[x.req.domain][x.req.archive].failed - 1)
      ]_vars

\* ---------------------------------------------------------------------------
\* The retry queue, the cache and the driver's failures
\* ---------------------------------------------------------------------------

\* a call of the retry-queue harness has just returned
Returned(name) == op'.n = op.n + 1 /\ op'.name = name

\* C21: add() of an entry whose domain is not in the domain list returns
\* without raising and leaves the queue, the retryqueue file (the whole
\* disk) and every progress counter as they were.
C21_DropUnlisted ==
    [][ (Returned("add") /\ op'.item.domain \notin ListedNow)
        => (queue' = queue /\ disk' = disk /\ hist' = hist /\ op'.exc = "none") ]_vars

C21_Witness ==
    /\ op.name = "add"
    /\ op.item.domain \notin ListedNow
    /\ queue # <<>>
    /\ op.exc = "none"

\* process() has just returned from a retry whose GET failed again
RetryFailed == Returned("process") /\ \E x \in lastAnswers' : Transient(x)

\* C22: when process() retries the head entry and the GET fails again, the
\* entry is back at the tail of the queue with attempts one greater, and the
\* failed counter of its pair is what it was before the call.
C22_RetryFailsAgain ==
    [][ RetryFailed =>
          LET item == Head(queue)
          IN  /\ queue' = Append(Tail(queue), [item EXCEPT !.attempts = @ + 1])
              /\ hist'[item.domain][item.archive].failed
                   = hist[item.domain][item.archive].failed ]_vars

\* ... the same without the count of attempts, which holds: the entry
\* is back at the tail as it was, and failed is restored.
Aux_C22_BackAtTail ==
    [][ RetryFailed =>
          LET item == Head(queue)
          IN  /\ queue' = Append(Tail(queue), item)
              /\ hist'[item.domain][item.archive].failed
                   = hist[item.domain][item.archive].failed ]_vars

\* C23: whenever add() or process() finishes, by returning or by raising and
\* whatever the GET came back with, the retryqueue file lists exactly the
\* entries of the in-memory queue, in the same order.
C23_PersistedAfterMutation ==
    [][ (Returned("add") \/ Returned("process"))
        => disk'.queue = LinesOf(queue') ]_vars

\* ... which holds of the calls that return
Aux_C23_WhenReturning ==
    [][ ((Returned("add") \/ Returned("process")) /\ op'.exc = "none" /\ disk.queue = LinesOf(queue))
        => disk'.queue = LinesOf(queue') ]_vars

\* C24: save() followed by load() into an empty in-memory queue gives back
\* the same entries in the same order, every field as it was, and leaves the
\* retryqueue file with the lines save() wrote.
C24_RoundTrip ==
    [][ Returned("load")
        => /\ op'.exc = "none"
           /\ queue' = queue
           /\ disk'.queue = LinesOf(queue) ]_vars

\* ... which holds of the queues the reader of load() takes in one read
\* and whose last entry has not been retried
Aux_C24_ShortQueue ==
    [][ (Returned("load") /\ Len(queue) <= ChunkLines
           /\ (queue # <<>> => queue[Len(queue)].attempts = 0))
        => /\ op'.exc = "none"
           /\ queue' = queue
           /\ disk'.queue = LinesOf(queue) ]_vars

\* ... and in memory the entries read are always the first entries saved
Aux_C24_Prefix ==
    [][ Returned("load")
        => /\ Len(queue') <= Len(queue)
           /\ queue' = SubSeq(queue, 1, Len(queue')) ]_vars

\* ... while entries past the reader's first read are lost (violated)
Aux_C24_NoneLost ==
    [][ Returned("load") => Len(queue') = Len(queue) ]_vars

C26_UnlistedDestroyed ==
    [][ (pc = "retry" /\ queue # <<>> /\ Head(queue).domain \notin ListedNow
           /\ cause' # "killed")
        => (pc' = "search" /\ queue' = Tail(queue)) ]_vars

\* ... the same of process() called on its own (violated)
Aux_C26_Unit ==
    [][ (Returned("process") /\ Head(queue).domain \notin ListedNow)
        => (op'.exc = "none" /\ queue' = Tail(queue)) ]_vars

\* a read() call has just ended
ReadDone == rfile'.n = rfile.n + 1

\* the length read() holds a cache file against: the range length, or the
\* remote length of a RemoteFile without one
Expected(f) == IF f.length > 0 THEN f.length ELSE f.remote

Sent(f, method) == \E i \in 1..Len(f.reqs) : f.reqs[i].method = method

\* C27: a read() that returns, of a RemoteFile whose cache file exists: when
\* the file's size is the expected length, the contents are the file's, no
\* GET is sent and the file is left alone; when the size differs, the
\* contents are fetched with a GET and the cache file is rewritten with them.
C27_CacheValidation ==
    [][ (ReadDone /\ rfile.filename /\ rfile.local >= 0 /\ rfile'.exc = "none") =>
          IF rfile.local = Expected(rfile)
          THEN /\ rfile'.from = "cache"
               /\ ~Sent(rfile', "GET")
               /\ rfile'.ret = rfile.local
               /\ rfile'.local = rfile.local
          ELSE /\ rfile'.from = "get"
               /\ Sent(rfile', "GET")
               /\ rfile'.ret = Expected(rfile)
               /\ rfile'.local = Expected(rfile) ]_vars

\* ... which holds unless the cache file and the remote file are both empty
Aux_C27_NotEmpty ==
    [][ (ReadDone /\ rfile.filename /\ rfile.local >= 0 /\ rfile'.exc = "none"
           /\ ~(rfile.local = 0 /\ Expected(rfile) = 0)) =>
          IF rfile.local = Expected(rfile)
          THEN /\ rfile'.from = "cache"
               /\ ~Sent(rfile', "GET")
               /\ rfile'.ret = rfile.local
               /\ rfile'.local = rfile.local
          ELSE /\ rfile'.from = "get"
               /\ Sent(rfile', "GET")
               /\ rfile'.ret = Expected(rfile)
               /\ rfile'.local = Expected(rfile) ]_vars

\* C28: a step of the loop in which a request failed with a network error
\* or a status that is neither 2xx nor 4xx does not end the process.
C28_TransientNeverCrashes ==
    [][ (pc \in {"retry", "search"} /\ cause' # "killed"
           /\ \E x \in lastAnswers' : Transient(x))
        => pc' # "dead" ]_vars

\* ... which holds of the record downloads, of getFile and of the retry
\* queue, while the search works on the listed Domain object
Aux_C28_RecordDownloads ==
    [][ (pc \in {"retry", "search"} /\ cause' # "killed" /\ ~current_search.stale
           /\ \E x \in lastAnswers' : Transient(x)
           /\ \A y \in lastAnswers' : Transient(y) => y.req.what = "record")
        => pc' # "dead" ]_vars

\* the test of main's selection (:703) and the done predicate of status.py
\* agree on the pair (domains[i], a)
Agree(i, a) ==
    LET e == hist[domains[i]][a]
    IN  Pending(hist[domains[i]], a) <=> ~(e.in /\ IsDone(e))

\* C29: when main has selected the pair to work on, the pairs its test takes
\* for finished are those with recorded progress for which results = 0 or
\* (completed = results and failed = 0); a pair with no recorded progress is
\* pending.
C29_PendingAgreesWithDone ==
    pc = "retry" => \A i \in 1..Len(domains), a \in Archives : Agree(i, a)

\* ... which holds of the pairs without failed downloads
Aux_C29_NoneFailed ==
    pc = "retry" =>
        \A i \in 1..Len(domains), a \in Archives :
            hist[domains[i]][a].failed = 0 => Agree(i, a)

\* C30: every request a read() sends, the size probe of a cached file
\* without a length included, is a GET sent by RemoteFile.get after its
\* limiter, and requests['last'] is the time of the last request sent.
C30_AllThroughLimiter ==
    [][ ReadDone =>
          /\ \A i \in 1..Len(rfile'.reqs) :
                rfile'.reqs[i].method = "GET" /\ rfile'.reqs[i].via_get
          /\ rfile'.reqs # <<>> => requests'.since = rfile'.sinceLast ]_vars

\* ... which holds of the reads that do not probe the remote size
Aux_C30_NoProbe ==
    [][ (ReadDone /\ ~Sent(rfile', "HEAD")) =>
          /\ \A i \in 1..Len(rfile'.reqs) :
                rfile'.reqs[i].method = "GET" /\ rfile'.reqs[i].via_get
          /\ rfile'.reqs # <<>> => requests'.since = rfile'.sinceLast ]_vars

\* ---------------------------------------------------------------------------
\* The failed counter, lost records, the search's bounds, and the end
\* ---------------------------------------------------------------------------

\* the entries of the pair (d, a) in the in-memory queue q, and the lines of
\* the pair in the retryqueue file
QueuedFor(q, d, a) ==
    Cardinality({i \in 1..Len(q) : q[i].domain = d /\ q[i].archive = a})
LinesFor(lines, d, a) ==
    Cardinality({i \in 1..Len(lines) : lines[i].domain = d /\ lines[i].archiveID = a})

\* C31: between two passes of the loop the failed counter of every pair of a
\* listed domain is the number of entries the retry queue holds for the pair;
\* in the files, at any time a kill or an exception may end the process,
\* the failed counter of every pair is the number of lines of the pair in
\* the retryqueue file; and no failed counter is negative.
C31_FailedCountsEntries ==
    /\ pc = "loop" =>
          \A d \in ListedNow, a \in Archives :
              hist[d][a].failed = QueuedFor(queue, d, a)
    /\ \A d \in DomainNames, a \in Archives :
          disk.hist[d].ok =>
              /\ disk.hist[d].doc[a].failed = LinesFor(disk.queue, d, a)
              /\ disk.hist[d].doc[a].failed >= 0

\* ... the part of C31 on the counters in memory between two passes
Aux_C31_InMemory ==
    pc = "loop" =>
        \A d \in ListedNow, a \in Archives :
            hist[d][a].failed = QueuedFor(queue, d, a)

\* ... and the part on the sign of the persisted counters
Aux_C31_NeverNegative ==
    \A d \in DomainNames, a \in Archives :
        disk.hist[d].ok => disk.hist[d].doc[a].failed >= 0

\* ... while add() and process() calls that return keep the counters in
\* memory equal to the number of entries
Aux_C31_Returning ==
    [][ ((Returned("add") \/ Returned("process")) /\ op'.exc = "none"
           /\ \A d \in ListedNow, a \in Archives : hist[d][a].failed = QueuedFor(queue, d, a))
        => \A d \in ListedNow, a \in Archives :
              hist'[d][a].failed = QueuedFor(queue', d, a) ]_vars

\* the record getFile last worked on is accounted for: written to its local
\* file, over the size limit, or listed in the retryqueue file
Accounted(f) ==
    \/ disk.files[f.rec] = "full"
    \/ LoadsJson(f.rec).length > max_file_size
    \/ LedgerEntries(disk.queue, RecordReq(f)) # {}

\* the persisted completed of the pair of f is past the position of f
Passed(f) ==
    /\ disk.hist[f.domain].ok
    /\ disk.hist[f.domain].doc[f.archive].in
    /\ disk.hist[f.domain].doc[f.archive].completed > f.pos

\* C32: when completed has advanced past the record getFile worked on, the
\* record has been written to its local file, or was skipped for its size,
\* or is in the retry queue.
C32_NoRecordLost ==
    (lastFetch.some /\ Passed(lastFetch)) => Accounted(lastFetch)

\* ... which holds unless the download ended with an exception that
\* download() does not catch, or add() raised
Aux_C32_Caught ==
    (lastFetch.some /\ Passed(lastFetch) /\ lastFetch.raised = "none")
        => Accounted(lastFetch)

\* C33: on every non-empty sorted cluster index and for every key,
\* findClusters and findArchives run to their end without an exception, and
\* a key no shard entry matches gives no records.
C33_NoOutOfRange ==
    /\ sPc \in {"clusters", "records"} => sClusters.err = "none"
    /\ sPc = "records" => sRecords.err = "none"
    /\ (sPc = "records" /\ \A e \in EntriesOf(corpus) : ~MatchesKey(e, qKey))
          => sRecords.archives = <<>>

\* ... the part of C33 on findArchives (violated: :592 reads index[position]
\* with position = len(index))
Aux_C33_Records ==
    sPc = "records" => sRecords.err = "none"

\* ... and findClusters on the keys whose insertion point is inside the index
Aux_C33_Inside ==
    (sPc \in {"clusters", "records"}
       /\ LowerBound(corpus.index, ClusterProbe(qKey)) < Len(corpus.index))
        => sClusters.err = "none"

\* the retry queue is empty and every pair of a domain of domains.conf is done
Settled ==
    /\ queue = <<>>
    /\ \A i \in 1..Len(domainsFile), a \in Archives :
          hist[domainsFile[i]][a].in /\ IsDone(hist[domainsFile[i]][a])

\* C34: with domains.conf and the archives fixed and every request
\* succeeding in the end, the process comes to have an empty retry queue and
\* every pair done, and stays so.
C34_EventuallySettled == <>[]Settled

\* ... which holds of the runs in which no exception ends the process
Aux_C34_WhileRunning == <>(pc = "dead") \/ <>[]Settled

\* ... and of the runs in which every request succeeds at once
Aux_C34_AllSucceed == <>(~clean) \/ <>[]Settled
=============================================================================
